---- MODULE Spec2Model ----
(***************************************************************************)
(* Model of bot.py: the home-timeline auto-retweet bot.  One process run   *)
(* is: read the configuration, load state.json, authenticate, fetch the    *)
(* home timeline, filter every tweet oldest-first, retweet (or simulate)   *)
(* up to MAX_RETWEETS_PER_RUN, save state.json.                            *)
(***************************************************************************)
EXTENDS Integers, Sequences, FiniteSets, TLC

(* ------------------------------ bounds ------------------------------- *)
\* longest home timeline the provider returns in the model
MaxFetch == 2
\* largest MAX_RETWEETS_PER_RUN the environment sets in the model
MaxCap == 1
\* number of process runs in one behaviour
MaxRuns == 2
\* latest hour at which a run starts
MaxClock == 4
\* largest ledger a single run finds in state.json at its start
MaxLedger == 1

(* ------------------------- program constants ------------------------- *)
LOOKBACK_HOURS == 3

\* KEYWORDS default "cover|..." : the alternatives of the pattern, as
\* sequences of characters
KEYWORDS_PATTERN == { <<"c", "o", "v", "e", "r">> }

(* ------------------------------ tweets ------------------------------- *)
\* Python None, also the absent datetime; a datetime is <<hour>>
None == << >>
ME == "me"
SOMEONE == "u9"
\* str(me.id) of client.get_me(); run_once computes it and never reads it
my_user_id == ME

TweetIds == {"t1", "t2", "t3", "t4", "t5", "t6", "t7", "t8"}

Mk(id, author, created, refs, text) ==
    [id |-> id, author_id |-> author, created_at |-> created,
     referenced_tweets |-> refs, text |-> text]

\* The tweets the provider can return; a tweet is immutable, so its
\* fields are a function of its id.
Tweet(id) ==
    CASE id = "t1" -> Mk(id, SOMEONE, <<2>>, << >>, <<"C", "o", "v", "e", "r">>)
      [] id = "t2" -> Mk(id, ME, <<2>>, << >>, <<"a", " ", "c", "o", "v", "e", "r">>)
      [] id = "t3" -> Mk(id, SOMEONE, <<2>>, <<"retweeted">>, <<"c", "o", "v", "e", "r">>)
      [] id = "t4" -> Mk(id, SOMEONE, <<2>>, <<"replied_to">>, <<"c", "o", "v", "e", "r">>)
      [] id = "t5" -> Mk(id, SOMEONE, <<2>>, <<"quoted">>, <<"c", "o", "v", "e", "r">>)
      [] id = "t6" -> Mk(id, SOMEONE, <<2>>, << >>, <<"c", "o", "v", "e">>)
      [] id = "t7" -> Mk(id, SOMEONE, None, << >>, <<"c", "o", "v", "e", "r">>)
      [] id = "t8" -> Mk(id, SOMEONE, <<0>>, << >>, <<"c", "o", "v", "e", "r">>)

(* --------------------------- pure functions -------------------------- *)
Range(s) == { s[k] : k \in 1..Len(s) }

\* the sequences of at most n distinct elements of S
RECURSIVE SeqsUpTo(_, _)
SeqsUpTo(S, n) ==
    IF n = 0 THEN { << >> }
    ELSE LET shorter == SeqsUpTo(S, n - 1)
         IN  shorter \cup
             UNION { { Append(s, x) : x \in S \ Range(s) } : s \in shorter }

\* list(reversed(tweets))
Reversed(s) == [k \in 1..Len(s) |-> s[Len(s) + 1 - k]]

\* re.IGNORECASE on the characters the model uses
Fold(c) == IF c = "C" THEN "c" ELSE c

\* keyword_re.search(text): some alternative occurs as a substring
Search(text) ==
    \E kw \in KEYWORDS_PATTERN :
        \E off \in 0..(Len(text) - Len(kw)) :
            \A k \in 1..Len(kw) : Fold(text[off + k]) = Fold(kw[k])

matches_keywords(text) ==
    IF Len(text) = 0 THEN FALSE ELSE Search(text)

\* mutant: quoted tweets are not recognised
is_retweet_or_reply_NoQuote(tweet) ==
    LET refs == tweet.referenced_tweets
    IN  IF Len(refs) = 0 THEN FALSE
        ELSE \E k \in 1..Len(refs) : refs[k] \in {"retweeted", "replied_to"}

is_retweet_or_reply(tweet) ==
    LET refs == tweet.referenced_tweets
    IN  IF Len(refs) = 0 THEN FALSE
        ELSE \E k \in 1..Len(refs) :
                 refs[k] \in {"retweeted", "replied_to", "quoted"}

get_created_at(tweet) == tweet.created_at

Cutoff(clock) == clock - LOOKBACK_HOURS

\* mutant: a tweet created exactly at the cutoff is taken as too old
Gate_CutoffExcluded(t, proc, cutoff) ==
    IF t.id \in proc THEN "duplicate"
    ELSE IF get_created_at(t) = None THEN "no_created_at"
    ELSE IF get_created_at(t)[1] <= cutoff THEN "old"
    ELSE IF is_retweet_or_reply(t) THEN "reference"
    ELSE IF ~matches_keywords(t.text) THEN "no_match"
    ELSE "admit"

\* mutant: the already-processed check is missing
Gate_NoDuplicateCheck(t, proc, cutoff) ==
    IF get_created_at(t) = None THEN "no_created_at"
    ELSE IF get_created_at(t)[1] < cutoff THEN "old"
    ELSE IF is_retweet_or_reply(t) THEN "reference"
    ELSE IF ~matches_keywords(t.text) THEN "no_match"
    ELSE "admit"

\* The gates of the loop body, in the order of the code: the verdict for
\* one tweet given the in-memory processed set and the cutoff.
Gate(t, proc, cutoff) ==
    IF t.id \in proc THEN "duplicate"
    ELSE IF get_created_at(t) = None THEN "no_created_at"
    ELSE IF get_created_at(t)[1] < cutoff THEN "old"
    ELSE IF is_retweet_or_reply(t) THEN "reference"
    ELSE IF ~matches_keywords(t.text) THEN "no_match"
    ELSE "admit"

(* ------------------------------- state ------------------------------- *)
VARIABLES
    store,                 \* state.json: [shape, ids]
    pc,                    \* position of the process
    DRY_RUN,               \* configuration of this process
    MAX_RETWEETS_PER_RUN,
    now,                   \* hour at which this run started
    processed,             \* in-memory set of processed ids
    tweets,                \* fetched tweets, oldest first
    idx,                   \* position of the for loop in tweets
    retweeted_count,
    hist,                  \* what this run did (observation only)
    called,                \* client.retweet calls per id over all runs
    prev,                  \* what the previous run did (observation only)
    runs                   \* number of process runs started

vars == <<store, pc, DRY_RUN, MAX_RETWEETS_PER_RUN, now, processed, tweets,
          idx, retweeted_count, hist, called, prev, runs>>

Caps == (0 - 1)..MaxCap

\* state.json as the run finds it
StoreShapes == {"missing", "invalid_json", "not_mapping", "bad_list", "ok"}

\* no tweet id
NoTweet == "none"

EmptyHist(st) ==
    [store0 |-> st,            \* state.json when the process started
     loaded |-> {},            \* processed right after load_state
     retweet_calls |-> << >>,  \* <<id, succeeded>> of every client.retweet
     simulated |-> << >>,      \* ids of the DRY_RUN branch
     admitted |-> << >>,       \* ids that passed every gate
     capped |-> NoTweet,       \* id at which the cap check broke the loop
     fetch |-> "none",         \* get_home_timeline: none, ok or failed
     resp |-> << >>,           \* ids of resp.data, in the provider's order
     outcome |-> "running"]    \* how run_once ended

NoPrev == [failed |-> {}, capped |-> NoTweet, outcome |-> "none", lost |-> FALSE]

TypeOK ==
    /\ store.shape \in StoreShapes
    /\ store.ids \subseteq TweetIds
    /\ pc \in {"start", "auth", "fetch", "loop", "save", "exit"}
    /\ DRY_RUN \in BOOLEAN
    /\ MAX_RETWEETS_PER_RUN \in Caps
    /\ now \in LOOKBACK_HOURS..MaxClock
    /\ processed \subseteq TweetIds
    /\ idx \in 1..(Len(tweets) + 1)
    /\ retweeted_count \in 0..MaxFetch
    /\ runs \in 1..MaxRuns

Init ==
    /\ store \in { [shape |-> s, ids |-> {}] : s \in StoreShapes }
    /\ pc = "start"
    /\ DRY_RUN \in BOOLEAN
    /\ MAX_RETWEETS_PER_RUN \in Caps
    /\ now = LOOKBACK_HOURS
    /\ processed = {}
    /\ tweets = << >>
    /\ idx = 1
    /\ retweeted_count = 0
    /\ hist = EmptyHist(store)
    /\ called = [id \in TweetIds |-> 0]
    /\ prev = NoPrev
    /\ runs = 1

(* ------------------------------ actions ------------------------------ *)
\* load_state(path), then set(state.get("processed_ids", []))
load_state(st) ==
    IF st.shape \in {"missing", "invalid_json"}
    THEN [shape |-> "ok", ids |-> {}]
    ELSE st

LoadState ==
    /\ pc = "start"
    /\ LET state == load_state(store)
       IN  IF state.shape = "ok"
           THEN /\ processed' = state.ids
                /\ hist' = [hist EXCEPT !.loaded = state.ids]
                /\ pc' = "auth"
           ELSE \* state.get / set(...) raises: run_once is left by the exception
                /\ processed' = processed
                /\ hist' = [hist EXCEPT !.outcome = "state_error"]
                /\ pc' = "exit"
    /\ UNCHANGED <<store, DRY_RUN, MAX_RETWEETS_PER_RUN, now, tweets, idx,
                   retweeted_count, called, prev, runs>>

\* make_client() and client.get_me() succeed
AuthOk ==
    /\ pc = "auth"
    /\ pc' = "fetch"
    /\ UNCHANGED <<store, DRY_RUN, MAX_RETWEETS_PER_RUN, now, processed,
                   tweets, idx, retweeted_count, hist, called, prev, runs>>

\* make_client() raises RuntimeError or client.get_me() raises
AuthFail ==
    /\ pc = "auth"
    /\ pc' = "exit"
    /\ hist' = [hist EXCEPT !.outcome = "auth_error"]
    /\ UNCHANGED <<store, DRY_RUN, MAX_RETWEETS_PER_RUN, now, processed,
                   tweets, idx, retweeted_count, called, prev, runs>>

\* mutant: the timeline is processed in the provider's order
FetchOk_NotReversed ==
    /\ pc = "fetch"
    /\ \E resp \in SeqsUpTo(TweetIds, MaxFetch) :
           /\ tweets' = resp
           /\ hist' = [hist EXCEPT !.fetch = "ok", !.resp = resp]
    /\ idx' = 1
    /\ retweeted_count' = 0
    /\ pc' = "loop"
    /\ UNCHANGED <<store, DRY_RUN, MAX_RETWEETS_PER_RUN, now, processed,
                   called, prev, runs>>

\* client.get_home_timeline returns resp: up to MaxFetch distinct tweets,
\* newest first
FetchOk ==
    /\ pc = "fetch"
    /\ \E resp \in SeqsUpTo(TweetIds, MaxFetch) :
           /\ tweets' = Reversed(resp)
           /\ hist' = [hist EXCEPT !.fetch = "ok", !.resp = resp]
    /\ idx' = 1
    /\ retweeted_count' = 0
    /\ pc' = "loop"
    /\ UNCHANGED <<store, DRY_RUN, MAX_RETWEETS_PER_RUN, now, processed,
                   called, prev, runs>>

\* mutant: after the fetch error the run goes on to save_state
FetchFail_FallsThrough ==
    /\ pc = "fetch"
    /\ pc' = "save"
    /\ hist' = [hist EXCEPT !.fetch = "failed"]
    /\ UNCHANGED <<store, DRY_RUN, MAX_RETWEETS_PER_RUN, now, processed,
                   tweets, idx, retweeted_count, called, prev, runs>>

\* client.get_home_timeline raises: logged, return
FetchFail ==
    /\ pc = "fetch"
    /\ pc' = "exit"
    /\ hist' = [hist EXCEPT !.fetch = "failed", !.outcome = "fetch_error"]
    /\ UNCHANGED <<store, DRY_RUN, MAX_RETWEETS_PER_RUN, now, processed,
                   tweets, idx, retweeted_count, called, prev, runs>>

InLoop == pc = "loop" /\ idx <= Len(tweets)

Current == Tweet(tweets[idx])

Verdict == Gate(Current, processed, Cutoff(now))

\* if tid in processed: continue
SkipProcessed ==
    /\ InLoop
    /\ Verdict = "duplicate"
    /\ idx' = idx + 1
    /\ UNCHANGED <<store, pc, DRY_RUN, MAX_RETWEETS_PER_RUN, now, processed,
                   tweets, retweeted_count, hist, called, prev, runs>>

\* mutant: a rejected tweet is not marked processed
Reject_NotRecorded ==
    /\ InLoop
    /\ Verdict \in {"no_created_at", "old", "reference", "no_match"}
    /\ idx' = idx + 1
    /\ UNCHANGED <<store, pc, DRY_RUN, MAX_RETWEETS_PER_RUN, now, processed,
                   tweets, retweeted_count, hist, called, prev, runs>>

\* the four rejecting gates: processed.add(tid); continue
Reject ==
    /\ InLoop
    /\ Verdict \in {"no_created_at", "old", "reference", "no_match"}
    /\ processed' = processed \cup {Current.id}
    /\ idx' = idx + 1
    /\ UNCHANGED <<store, pc, DRY_RUN, MAX_RETWEETS_PER_RUN, now, tweets,
                   retweeted_count, hist, called, prev, runs>>

Admitted == InLoop /\ Verdict = "admit"

\* mutant: the cap check is off by one
AtCap_OffByOne(count, cap) == count > cap

\* retweeted_count >= MAX_RETWEETS_PER_RUN
AtCap(count, cap) == count >= cap

\* mutant: the tweet at which the cap stops the loop is marked processed
CapReached_Recorded ==
    /\ Admitted
    /\ AtCap(retweeted_count, MAX_RETWEETS_PER_RUN)
    /\ pc' = "save"
    /\ processed' = processed \cup {Current.id}
    /\ hist' = [hist EXCEPT !.admitted = Append(@, Current.id),
                            !.capped = Current.id]
    /\ UNCHANGED <<store, DRY_RUN, MAX_RETWEETS_PER_RUN, now, tweets, idx,
                   retweeted_count, called, prev, runs>>

\* mutant: at the cap the loop skips the tweet and goes on
CapReached_Continues ==
    /\ Admitted
    /\ AtCap(retweeted_count, MAX_RETWEETS_PER_RUN)
    /\ idx' = idx + 1
    /\ hist' = [hist EXCEPT !.admitted = Append(@, Current.id),
                            !.capped = Current.id]
    /\ UNCHANGED <<store, pc, DRY_RUN, MAX_RETWEETS_PER_RUN, now, processed,
                   tweets, retweeted_count, called, prev, runs>>

\* if retweeted_count >= MAX_RETWEETS_PER_RUN: break
CapReached ==
    /\ Admitted
    /\ AtCap(retweeted_count, MAX_RETWEETS_PER_RUN)
    /\ pc' = "save"
    /\ hist' = [hist EXCEPT !.admitted = Append(@, Current.id),
                            !.capped = Current.id]
    /\ UNCHANGED <<store, DRY_RUN, MAX_RETWEETS_PER_RUN, now, processed,
                   tweets, idx, retweeted_count, called, prev, runs>>

\* mutant: the DRY_RUN branch calls the provider all the same
DryRunRetweet_Calls ==
    /\ Admitted
    /\ ~AtCap(retweeted_count, MAX_RETWEETS_PER_RUN)
    /\ DRY_RUN
    /\ processed' = processed \cup {Current.id}
    /\ retweeted_count' = retweeted_count + 1
    /\ idx' = idx + 1
    /\ hist' = [hist EXCEPT !.admitted = Append(@, Current.id),
                            !.simulated = Append(@, Current.id),
                            !.retweet_calls = Append(@, <<Current.id, TRUE>>)]
    /\ called' = [called EXCEPT ![Current.id] = @ + 1]
    /\ UNCHANGED <<store, pc, DRY_RUN, MAX_RETWEETS_PER_RUN, now, tweets,
                   prev, runs>>

\* DRY_RUN branch
DryRunRetweet ==
    /\ Admitted
    /\ ~AtCap(retweeted_count, MAX_RETWEETS_PER_RUN)
    /\ DRY_RUN
    /\ processed' = processed \cup {Current.id}
    /\ retweeted_count' = retweeted_count + 1
    /\ idx' = idx + 1
    /\ hist' = [hist EXCEPT !.admitted = Append(@, Current.id),
                            !.simulated = Append(@, Current.id)]
    /\ UNCHANGED <<store, pc, DRY_RUN, MAX_RETWEETS_PER_RUN, now, tweets,
                   called, prev, runs>>

\* mutant: a successful retweet is not counted
RetweetOk_NotCounted ==
    /\ Admitted
    /\ ~AtCap(retweeted_count, MAX_RETWEETS_PER_RUN)
    /\ ~DRY_RUN
    /\ processed' = processed \cup {Current.id}
    /\ idx' = idx + 1
    /\ hist' = [hist EXCEPT !.admitted = Append(@, Current.id),
                            !.retweet_calls = Append(@, <<Current.id, TRUE>>)]
    /\ called' = [called EXCEPT ![Current.id] = @ + 1]
    /\ UNCHANGED <<store, pc, DRY_RUN, MAX_RETWEETS_PER_RUN, now, tweets,
                   retweeted_count, prev, runs>>

\* client.retweet(tweet_id=tid) returns
RetweetOk ==
    /\ Admitted
    /\ ~AtCap(retweeted_count, MAX_RETWEETS_PER_RUN)
    /\ ~DRY_RUN
    /\ processed' = processed \cup {Current.id}
    /\ retweeted_count' = retweeted_count + 1
    /\ idx' = idx + 1
    /\ hist' = [hist EXCEPT !.admitted = Append(@, Current.id),
                            !.retweet_calls = Append(@, <<Current.id, TRUE>>)]
    /\ called' = [called EXCEPT ![Current.id] = @ + 1]
    /\ UNCHANGED <<store, pc, DRY_RUN, MAX_RETWEETS_PER_RUN, now, tweets,
                   prev, runs>>

\* mutant: a failed retweet is left out of processed
RetweetFail_NotRecorded ==
    /\ Admitted
    /\ ~AtCap(retweeted_count, MAX_RETWEETS_PER_RUN)
    /\ ~DRY_RUN
    /\ idx' = idx + 1
    /\ hist' = [hist EXCEPT !.admitted = Append(@, Current.id),
                            !.retweet_calls = Append(@, <<Current.id, FALSE>>)]
    /\ called' = [called EXCEPT ![Current.id] = @ + 1]
    /\ UNCHANGED <<store, pc, DRY_RUN, MAX_RETWEETS_PER_RUN, now, processed,
                   tweets, retweeted_count, prev, runs>>

\* mutant: a failed retweet ends the loop
RetweetFail_Aborts ==
    /\ Admitted
    /\ ~AtCap(retweeted_count, MAX_RETWEETS_PER_RUN)
    /\ ~DRY_RUN
    /\ processed' = processed \cup {Current.id}
    /\ pc' = "save"
    /\ hist' = [hist EXCEPT !.admitted = Append(@, Current.id),
                            !.retweet_calls = Append(@, <<Current.id, FALSE>>)]
    /\ called' = [called EXCEPT ![Current.id] = @ + 1]
    /\ UNCHANGED <<store, DRY_RUN, MAX_RETWEETS_PER_RUN, now, tweets, idx,
                   retweeted_count, prev, runs>>

\* mutant: a failed retweet is counted
RetweetFail_Counted ==
    /\ Admitted
    /\ ~AtCap(retweeted_count, MAX_RETWEETS_PER_RUN)
    /\ ~DRY_RUN
    /\ processed' = processed \cup {Current.id}
    /\ retweeted_count' = retweeted_count + 1
    /\ idx' = idx + 1
    /\ hist' = [hist EXCEPT !.admitted = Append(@, Current.id),
                            !.retweet_calls = Append(@, <<Current.id, FALSE>>)]
    /\ called' = [called EXCEPT ![Current.id] = @ + 1]
    /\ UNCHANGED <<store, pc, DRY_RUN, MAX_RETWEETS_PER_RUN, now, tweets,
                   prev, runs>>

\* client.retweet(tweet_id=tid) raises
RetweetFail ==
    /\ Admitted
    /\ ~AtCap(retweeted_count, MAX_RETWEETS_PER_RUN)
    /\ ~DRY_RUN
    /\ processed' = processed \cup {Current.id}
    /\ idx' = idx + 1
    /\ hist' = [hist EXCEPT !.admitted = Append(@, Current.id),
                            !.retweet_calls = Append(@, <<Current.id, FALSE>>)]
    /\ called' = [called EXCEPT ![Current.id] = @ + 1]
    /\ UNCHANGED <<store, pc, DRY_RUN, MAX_RETWEETS_PER_RUN, now, tweets,
                   retweeted_count, prev, runs>>

\* the for loop runs out of tweets
LoopEnd ==
    /\ pc = "loop"
    /\ idx > Len(tweets)
    /\ pc' = "save"
    /\ UNCHANGED <<store, DRY_RUN, MAX_RETWEETS_PER_RUN, now, processed,
                   tweets, idx, retweeted_count, hist, called, prev, runs>>

\* state["processed_ids"] = list(processed); save_state writes the file
SaveOk ==
    /\ pc = "save"
    /\ store' = [shape |-> "ok", ids |-> processed]
    /\ pc' = "exit"
    /\ hist' = [hist EXCEPT !.outcome = "saved"]
    /\ UNCHANGED <<DRY_RUN, MAX_RETWEETS_PER_RUN, now, processed, tweets,
                   idx, retweeted_count, called, prev, runs>>

\* save_state: open(path, "w") raises, the file is left as it was
SaveOpenFail ==
    /\ pc = "save"
    /\ pc' = "exit"
    /\ hist' = [hist EXCEPT !.outcome = "save_failed"]
    /\ UNCHANGED <<store, DRY_RUN, MAX_RETWEETS_PER_RUN, now, processed,
                   tweets, idx, retweeted_count, called, prev, runs>>

\* save_state: json.dump raises after open truncated the file
SaveWriteFail ==
    /\ pc = "save"
    /\ store' = [shape |-> "invalid_json", ids |-> {}]
    /\ pc' = "exit"
    /\ hist' = [hist EXCEPT !.outcome = "save_failed"]
    /\ UNCHANGED <<DRY_RUN, MAX_RETWEETS_PER_RUN, now, processed, tweets,
                   idx, retweeted_count, called, prev, runs>>

FailedIds(h) ==
    { h.retweet_calls[k][1] :
        k \in { j \in 1..Len(h.retweet_calls) : ~h.retweet_calls[j][2] } }

\* the scheduler starts the next process: the module is loaded again and
\* reads its configuration from the environment
NextRun ==
    /\ pc = "exit"
    /\ runs < MaxRuns
    /\ runs' = runs + 1
    /\ pc' = "start"
    /\ DRY_RUN' \in BOOLEAN
    /\ MAX_RETWEETS_PER_RUN' \in Caps
    /\ now' \in now..MaxClock
    /\ processed' = {}
    /\ tweets' = << >>
    /\ idx' = 1
    /\ retweeted_count' = 0
    /\ prev' = [failed |-> FailedIds(hist), capped |-> hist.capped,
                outcome |-> hist.outcome,
                lost |-> prev.lost \/ hist.outcome = "save_failed"]
    /\ hist' = EmptyHist(store)
    /\ UNCHANGED <<store, called>>

Next ==
    \/ LoadState
    \/ AuthOk
    \/ AuthFail
    \/ FetchOk
    \/ FetchFail
    \/ SkipProcessed
    \/ Reject
    \/ CapReached
    \/ DryRunRetweet
    \/ RetweetOk
    \/ RetweetFail
    \/ LoopEnd
    \/ SaveOk
    \/ SaveOpenFail
    \/ SaveWriteFail
    \/ NextRun

Spec == Init /\ [][Next]_vars

(* One run of the process, from any state.json a run can find: a ledger  *)
(* of up to MaxLedger ids (ids the run does not fetch play no part) or a *)
(* file that is missing or damaged, at any hour.                         *)
Ledgers == { l \in SUBSET TweetIds : Cardinality(l) <= MaxLedger }

InitRun ==
    /\ store \in { [shape |-> "ok", ids |-> l] : l \in Ledgers }
                 \cup { [shape |-> sh, ids |-> {}] : sh \in StoreShapes \ {"ok"} }
    /\ pc = "start"
    /\ DRY_RUN \in BOOLEAN
    /\ MAX_RETWEETS_PER_RUN \in Caps
    /\ now \in LOOKBACK_HOURS..MaxClock
    /\ processed = {}
    /\ tweets = << >>
    /\ idx = 1
    /\ retweeted_count = 0
    /\ hist = EmptyHist(store)
    /\ called = [id \in TweetIds |-> 0]
    /\ prev = NoPrev
    /\ runs = 1

NextInRun ==
    \/ LoadState
    \/ AuthOk
    \/ AuthFail
    \/ FetchOk
    \/ FetchFail
    \/ SkipProcessed
    \/ Reject
    \/ CapReached
    \/ DryRunRetweet
    \/ RetweetOk
    \/ RetweetFail
    \/ LoopEnd
    \/ SaveOk
    \/ SaveOpenFail
    \/ SaveWriteFail

SpecRun == InitRun /\ [][NextInRun]_vars

(* Steady operation: live runs, one after the other within the same hour *)
(* and with the same configuration, in which the provider returns the    *)
(* same timeline every time and no call of the provider or of the file   *)
(* system fails.  The scheduler keeps starting runs and every run goes   *)
(* on to its end.                                                        *)
InitSteady ==
    /\ store \in { [shape |-> sh, ids |-> {}] :
                      sh \in {"missing", "invalid_json", "ok"} }
    /\ pc = "start"
    /\ DRY_RUN = FALSE
    /\ MAX_RETWEETS_PER_RUN \in 1..MaxCap
    /\ now \in LOOKBACK_HOURS..MaxClock
    /\ processed = {}
    /\ tweets = << >>
    /\ idx = 1
    /\ retweeted_count = 0
    /\ hist = EmptyHist(store)
    /\ called = [id \in TweetIds |-> 0]
    /\ prev = NoPrev
    /\ runs = 1

\* client.get_home_timeline returns what it returned in the run before
\* (tweets keeps it from one run to the next)
FetchSame ==
    /\ pc = "fetch"
    /\ \E resp \in SeqsUpTo(TweetIds, MaxFetch) :
           /\ prev.outcome # "none" => Reversed(resp) = tweets
           /\ tweets' = Reversed(resp)
           /\ hist' = [hist EXCEPT !.fetch = "ok", !.resp = resp]
    /\ idx' = 1
    /\ retweeted_count' = 0
    /\ pc' = "loop"
    /\ UNCHANGED <<store, DRY_RUN, MAX_RETWEETS_PER_RUN, now, processed,
                   called, prev, runs>>

\* the scheduler starts the next process, any number of times (runs stops
\* counting at MaxRuns)
NextRunSame ==
    /\ pc = "exit"
    /\ runs' = IF runs < MaxRuns THEN runs + 1 ELSE runs
    /\ pc' = "start"
    /\ processed' = {}
    /\ idx' = 1
    /\ retweeted_count' = 0
    /\ prev' = [failed |-> FailedIds(hist), capped |-> hist.capped,
                outcome |-> hist.outcome,
                lost |-> prev.lost \/ hist.outcome = "save_failed"]
    /\ hist' = EmptyHist(store)
    /\ UNCHANGED <<store, called, tweets, DRY_RUN, MAX_RETWEETS_PER_RUN, now>>

NextSteady ==
    \/ LoadState
    \/ AuthOk
    \/ FetchSame
    \/ SkipProcessed
    \/ Reject
    \/ CapReached
    \/ RetweetOk
    \/ LoopEnd
    \/ SaveOk
    \/ NextRunSame

SpecSteady == InitSteady /\ [][NextSteady]_vars /\ WF_vars(NextSteady)

(* ------------------------- the loop as a fold ------------------------ *)
\* processed at the end of the for loop of a DRY_RUN run over tw[k..],
\* starting from proc with count simulated retweets
RECURSIVE DryRunLoop(_, _, _, _, _, _)
DryRunLoop(tw, k, proc, count, cutoff, cap) ==
    IF k > Len(tw) THEN proc
    ELSE LET t == Tweet(tw[k])
             v == Gate(t, proc, cutoff)
         IN  IF v = "duplicate"
             THEN DryRunLoop(tw, k + 1, proc, count, cutoff, cap)
             ELSE IF v # "admit"
             THEN DryRunLoop(tw, k + 1, proc \cup {t.id}, count, cutoff, cap)
             ELSE IF AtCap(count, cap) THEN proc
             ELSE DryRunLoop(tw, k + 1, proc \cup {t.id}, count + 1, cutoff, cap)

(* ----------------------------- observers ----------------------------- *)
Max(a, b) == IF a >= b THEN a ELSE b

CalledIds(h) == { h.retweet_calls[k][1] : k \in 1..Len(h.retweet_calls) }

Succeeded(h) ==
    Cardinality({ k \in 1..Len(h.retweet_calls) : h.retweet_calls[k][2] })

Saved == pc = "exit" /\ hist.outcome = "saved"

\* the reference kind of a tweet, read off the provider's metadata
ReferenceKind(id) ==
    LET refs == Tweet(id).referenced_tweets
    IN  IF refs = << >> THEN "none"
        ELSE IF refs[1] = "retweeted" THEN "retweet"
        ELSE IF refs[1] = "replied_to" THEN "reply"
        ELSE "quote"

\* the fold is the DRY_RUN loop of the state machine
DryRunLoopAgrees ==
    (Saved /\ DRY_RUN) =>
        store.ids = DryRunLoop(tweets, 1, hist.loaded, 0, Cutoff(now),
                               MAX_RETWEETS_PER_RUN)

(* ------------------------------- claims ------------------------------ *)
Live == ~DRY_RUN

\* C1 (as claimed): in a live run the number of client.retweet calls,
\* failed ones included, never exceeds a non-negative MAX_RETWEETS_PER_RUN.
C1_CallsWithinCap ==
    (Live /\ MAX_RETWEETS_PER_RUN >= 0) =>
        Len(hist.retweet_calls) <= MAX_RETWEETS_PER_RUN

\* C1 (amended): in a live run the number of successful client.retweet
\* calls never exceeds max(MAX_RETWEETS_PER_RUN, 0), failed calls are not
\* counted against the cap, and with a cap of 0 or less no call is made.
C1_SuccessfulCallsWithinCap ==
    Live =>
        /\ Succeeded(hist) <= Max(MAX_RETWEETS_PER_RUN, 0)
        /\ Succeeded(hist) = retweeted_count
        /\ MAX_RETWEETS_PER_RUN <= 0 => Len(hist.retweet_calls) = 0

\* a live run with cap 1 that called twice: one failure, one success
C1_Witness ==
    /\ Live
    /\ MAX_RETWEETS_PER_RUN = 1
    /\ Len(hist.retweet_calls) = 2
    /\ Succeeded(hist) = 1
    /\ Saved

\* C2: an id in the ledger loaded at the start of a run is never passed to
\* client.retweet in that run, and as long as no save_state has failed
\* every id receives at most one client.retweet call over all runs.
C2_NoRepeatedAction ==
    /\ CalledIds(hist) \cap hist.loaded = {}
    /\ ~prev.lost => \A id \in TweetIds : called[id] <= 1

\* the second live run fetched a tweet the first run retweeted and saved
C2_Witness ==
    /\ runs = 2
    /\ prev.outcome = "saved"
    /\ Live
    /\ Saved
    /\ "t1" \in hist.loaded
    /\ "t1" \in Range(tweets)
    /\ called["t1"] = 1

\* C3: neither client.retweet nor the DRY_RUN branch is ever reached with a
\* retweet, a reply or a quote, and every such tweet the loop has evaluated
\* is in processed, hence in the ledger the run saves.
C3_NoActionOnReferences ==
    /\ \A id \in CalledIds(hist) \cup Range(hist.simulated) :
           ReferenceKind(id) = "none"
    /\ \A id \in TweetIds : called[id] > 0 => ReferenceKind(id) = "none"
    /\ hist.fetch = "ok" =>
           \A k \in 1..(idx - 1) :
               ReferenceKind(tweets[k]) # "none" => tweets[k] \in processed
    /\ Saved =>
           \A k \in 1..(idx - 1) :
               ReferenceKind(tweets[k]) # "none" => tweets[k] \in store.ids

\* a live run with room under the cap met a new quote tweet and saved it
C3_Witness ==
    /\ Live
    /\ MAX_RETWEETS_PER_RUN = 1
    /\ Saved
    /\ tweets = <<"t5", "t1">>
    /\ "t5" \notin hist.loaded
    /\ "t5" \in store.ids
    /\ hist.retweet_calls = << <<"t1", TRUE>> >>

\* C4: a run with DRY_RUN set makes no client.retweet call.
C4_DryRunMakesNoCall ==
    DRY_RUN => Len(hist.retweet_calls) = 0

\* a DRY_RUN run simulated a retweet and finished
C4_Witness ==
    /\ DRY_RUN
    /\ Saved
    /\ Len(hist.simulated) = 1
    /\ hist.simulated[1] \in store.ids

C6_OwnTweetNeverRetweeted ==
    \A id \in CalledIds(hist) : Tweet(id).author_id # my_user_id

\* C7: when get_home_timeline raises, the run makes no client.retweet call,
\* simulates none, never reaches save_state and leaves state.json as it
\* was when the run started.
C7_FetchFailureLeavesLedger ==
    hist.fetch = "failed" =>
        /\ store = hist.store0
        /\ hist.retweet_calls = << >>
        /\ hist.simulated = << >>
        /\ pc = "exit"
        /\ hist.outcome = "fetch_error"

\* a run that loaded a ledger holding t1 failed to fetch and has ended
C7_Witness ==
    /\ pc = "exit"
    /\ hist.loaded = {"t1"}
    /\ hist.fetch = "failed"
    /\ store = [shape |-> "ok", ids |-> {"t1"}]

\* C8 (as claimed): a tweet whose client.retweet call failed is not in the
\* ledger the run saves.
C8_FailedCallNotRecorded ==
    Saved => FailedIds(hist) \cap store.ids = {}

\* C8 (amended): a tweet whose client.retweet call failed is added to
\* processed at once and is in the ledger the run saves, so that the next
\* run, loading that ledger, rejects it as already processed and does not
\* call client.retweet on it again.
C8_FailedCallRecorded ==
    /\ FailedIds(hist) \subseteq processed
    /\ Saved => FailedIds(hist) \subseteq store.ids
    /\ (prev.outcome = "saved" /\ pc \notin {"start"}) =>
           /\ prev.failed \subseteq hist.loaded
           /\ prev.failed \cap CalledIds(hist) = {}
           /\ prev.failed \cap Range(hist.admitted) = {}

\* the run after a saved failure on t1 fetched t1 again, live and with
\* room under the cap, and finished
C8_Witness ==
    /\ runs = 2
    /\ prev.outcome = "saved"
    /\ prev.failed = {"t1"}
    /\ Live
    /\ MAX_RETWEETS_PER_RUN = 1
    /\ tweets = <<"t1">>
    /\ Saved

\* the tweet is inside the recency window of the current run
InWindow(id) ==
    /\ Tweet(id).created_at # None
    /\ Tweet(id).created_at[1] >= Cutoff(now)

\* C9: the tweet at which the cap check breaks the loop is not added to
\* processed and is absent from the ledger the run saves; for the next run
\* the pipeline admits it again if it is still inside the recency window,
\* and a next run that fetches it and is not itself stopped by the cap
\* passes it through every gate.
C9_CappedTweetStaysEligible ==
    /\ hist.capped # NoTweet =>
           /\ hist.capped \notin processed
           /\ Saved => hist.capped \notin store.ids
    /\ (prev.capped # NoTweet /\ pc \notin {"start"} /\ InWindow(prev.capped)) =>
           /\ hist.outcome # "state_error"
           /\ Gate(Tweet(prev.capped), hist.loaded, Cutoff(now)) = "admit"
           /\ (pc \in {"save", "exit"} /\ hist.fetch = "ok"
                 /\ hist.capped = NoTweet /\ prev.capped \in Range(tweets)) =>
                  prev.capped \in Range(hist.admitted)

\* the first run stopped at the cap on t2 and saved; the second run fetched
\* t2 inside the window and retweeted it
C9_Witness ==
    /\ runs = 2
    /\ prev.capped = "t2"
    /\ prev.outcome = "saved"
    /\ "t2" \notin hist.loaded
    /\ "t1" \in hist.loaded
    /\ hist.retweet_calls = << <<"t2", TRUE>> >>
    /\ Saved

\* C10: a run that finds state.json missing, unreadable, not JSON, or JSON
\* of the wrong shape goes on with an empty ledger and reaches the fetch.
C10_BadStoreStartsEmpty ==
    (hist.store0.shape # "ok" /\ pc # "start") =>
        /\ hist.outcome # "state_error"
        /\ hist.loaded = {}

\* C11: the set of ids in state.json only grows: no step of any run removes
\* an id from it.
C11_LedgerOnlyGrows ==
    [][store.ids \subseteq store'.ids]_vars

\* positions of tweets the loop has gone past
Evaluated == IF hist.fetch = "ok" THEN 1..(idx - 1) ELSE {}

\* ids on which the run acted, in the order of the actions
Acted ==
    IF DRY_RUN THEN hist.simulated
    ELSE [k \in 1..Len(hist.retweet_calls) |-> hist.retweet_calls[k][1]]

\* C12: a tweet the loop evaluates that is not yet processed and has no
\* created_at, or one strictly earlier than now - LOOKBACK_HOURS, is added
\* to processed and is neither admitted nor acted on; a tweet created
\* exactly at now - LOOKBACK_HOURS passes the recency gate (an original,
\* matching one goes on to be admitted).
C12_RecencyGate ==
    \A k \in Evaluated :
        LET id == tweets[k]
            created == Tweet(id).created_at
        IN  /\ (created = None \/ created[1] < now - LOOKBACK_HOURS) =>
                /\ id \in processed
                /\ id \notin Range(hist.admitted)
                /\ id \notin Range(Acted)
            /\ (created # None /\ created[1] = now - LOOKBACK_HOURS
                  /\ id \notin hist.loaded /\ ReferenceKind(id) = "none"
                  /\ matches_keywords(Tweet(id).text)) =>
                id \in Range(hist.admitted)

\* at hour 3 a live run recorded t7 (no created_at) and retweeted t8,
\* created exactly at the cutoff
C12_Witness ==
    /\ now = LOOKBACK_HOURS
    /\ Live
    /\ tweets = <<"t7", "t8">>
    /\ hist.loaded = {}
    /\ hist.retweet_calls = << <<"t8", TRUE>> >>
    /\ Saved
    /\ store.ids = {"t7", "t8"}

\* the tweet at position k of the provider's response, counted from its
\* end: the k-th oldest
Oldest(k) == hist.resp[Len(hist.resp) + 1 - k]

\* the k-th oldest tweet passes every gate against the ledger the run
\* loaded
Admissible(k) ==
    Gate(Tweet(Oldest(k)), hist.loaded, Cutoff(now)) = "admit"

\* C13: the loop goes through the provider's response from its last
\* (oldest) element to its first, the actions follow that order, and every
\* admissible tweet older than one the run acted on was acted on too.
C13_OldestFirst ==
    hist.fetch = "ok" =>
        /\ Len(tweets) = Len(hist.resp)
        /\ \A k \in 1..Len(tweets) : tweets[k] = Oldest(k)
        /\ \A i \in 1..Len(Acted) : \A j \in 1..Len(Acted) :
               i < j =>
                   \E a \in 1..Len(hist.resp) : \E b \in 1..Len(hist.resp) :
                       /\ a < b
                       /\ Oldest(a) = Acted[i]
                       /\ Oldest(b) = Acted[j]
        /\ \A b \in 1..Len(hist.resp) :
               Oldest(b) \in Range(Acted) =>
                   \A a \in 1..(b - 1) :
                       Admissible(a) => Oldest(a) \in Range(Acted)

\* the provider returned t2 before t1; the run retweeted the older t1 and
\* the cap stopped it at t2
C13_Witness ==
    /\ hist.resp = <<"t2", "t1">>
    /\ Live
    /\ hist.loaded = {}
    /\ hist.retweet_calls = << <<"t1", TRUE>> >>
    /\ hist.capped = "t2"
    /\ Saved

\* the counter has reached a cap of at least 1 and the loop is running
CapJustReached ==
    /\ pc = "loop"
    /\ MAX_RETWEETS_PER_RUN >= 1
    /\ retweeted_count >= MAX_RETWEETS_PER_RUN

\* C14 (as claimed): once the counter has reached the cap the loop
\* evaluates no further tweet and adds none to processed.
C14_NothingEvaluatedAfterCap ==
    [][CapJustReached => (idx' = idx /\ processed' = processed)]_vars

\* C14 (amended): once the counter has reached the cap no further action
\* is performed and the loop stops at the next tweet that passes every
\* gate, which is left unrecorded together with everything after it; the
\* tweets in between that a gate rejects are still evaluated and added to
\* processed.
C14_NoActionAfterCap ==
    /\ [][(pc = "loop" /\ AtCap(retweeted_count, MAX_RETWEETS_PER_RUN)) =>
            /\ hist'.retweet_calls = hist.retweet_calls
            /\ hist'.simulated = hist.simulated
            /\ called' = called
            /\ Admitted => (pc' = "save" /\ processed' = processed /\ idx' = idx)
            /\ (InLoop /\ ~Admitted) => (pc' = "loop" /\ idx' = idx + 1)]_vars
    /\ [](hist.capped # NoTweet =>
            /\ pc \in {"save", "exit"}
            /\ tweets[idx] = hist.capped
            /\ processed \subseteq hist.loaded \cup { tweets[k] : k \in 1..(idx - 1) })

\* with cap 1 a live run retweeted t1, then still evaluated and recorded
\* the non-matching t6
C14_Witness ==
    /\ Live
    /\ MAX_RETWEETS_PER_RUN = 1
    /\ tweets = <<"t1", "t6">>
    /\ hist.loaded = {}
    /\ hist.retweet_calls = << <<"t1", TRUE>> >>
    /\ Saved
    /\ store.ids = {"t1", "t6"}

\* the run got past the loop
LoopDone == pc \in {"save", "exit"} /\ hist.fetch = "ok"

\* C15: a run in which a client.retweet call failed still goes through the
\* rest of the timeline under the same rules: it stops early only at the
\* cap check with the counter at the cap, every tweet it went past that
\* passes the gates was given to client.retweet, every other one is in
\* processed, and the run ends in save_state, which writes processed.
C15_FailureDoesNotAbort ==
    FailedIds(hist) # {} =>
        /\ pc \in {"loop", "save", "exit"}
        /\ pc = "exit" => hist.outcome \in {"saved", "save_failed"}
        /\ Saved => store.ids = processed
        /\ LoopDone =>
               /\ hist.capped = NoTweet => idx = Len(tweets) + 1
               /\ hist.capped # NoTweet =>
                      /\ tweets[idx] = hist.capped
                      /\ AtCap(Succeeded(hist), MAX_RETWEETS_PER_RUN)
               /\ \A k \in Evaluated :
                      /\ Admissible(k) => tweets[k] \in CalledIds(hist)
                      /\ tweets[k] \in processed

\* with cap 1 the call on t1 failed, the loop went on to retweet t2 and
\* the run saved both
C15_Witness ==
    /\ Live
    /\ MAX_RETWEETS_PER_RUN = 1
    /\ hist.retweet_calls = << <<"t1", FALSE>>, <<"t2", TRUE>> >>
    /\ Saved
    /\ store.ids = {"t1", "t2"}

Min(a, b) == IF a <= b THEN a ELSE b

\* positions of the fetched tweets that pass every gate against the loaded
\* ledger: the admitted candidates of the run
Candidates == { k \in 1..Len(tweets) : Admissible(k) }

\* C16: in a DRY_RUN run, or a live run without a failed call, with k
\* admitted candidates and cap c, the run performs exactly min(k, max(c, 0))
\* actions, on the oldest candidates, records exactly those candidates and
\* leaves the other candidates out of processed and of the saved ledger.
C16_ExactlyMinActions ==
    (LoopDone /\ FailedIds(hist) = {}) =>
        LET n == Min(Cardinality(Candidates), Max(MAX_RETWEETS_PER_RUN, 0))
        IN  /\ Len(Acted) = n
            /\ retweeted_count = n
            /\ \A k \in Candidates :
                   LET first == Cardinality({ j \in Candidates : j <= k }) <= n
                   IN  /\ first <=> tweets[k] \in Range(Acted)
                       /\ first <=> tweets[k] \in processed
                       /\ Saved => (first <=> tweets[k] \in store.ids)

\* two candidates, cap 1, empty ledger, live: one retweet, t1 recorded, t2
\* left for the next run
C16_Witness ==
    /\ Live
    /\ MAX_RETWEETS_PER_RUN = 1
    /\ tweets = <<"t1", "t2">>
    /\ hist.loaded = {}
    /\ Acted = <<"t1">>
    /\ Saved
    /\ store.ids = {"t1"}

\* the ledger a run starting now would load from state.json
Durable(st) == load_state(st).ids

\* C17: at every point of a run the ledger held by state.json is either
\* the one the run found at its start or the complete final ledger of the
\* run.
C17_StoreIsStartOrFinal ==
    \/ Durable(store) = Durable(hist.store0)
    \/ pc = "exit" /\ Durable(store) = processed

\* C18: in the ledger a run saves are the ids it loaded and every tweet the
\* loop went past; the fetched tweets missing from it are the tweet at
\* which the cap check stopped the loop and tweets after it, and there are
\* none when the loop was not stopped.
C18_EveryDecisionRecorded ==
    (Saved /\ hist.fetch = "ok") =>
        /\ store.ids = hist.loaded \cup { tweets[k] : k \in Evaluated }
        /\ \A k \in 1..Len(tweets) :
               tweets[k] \notin store.ids =>
                   /\ hist.capped # NoTweet
                   /\ k >= idx
                   /\ tweets[idx] = hist.capped
        /\ hist.capped # NoTweet => hist.capped \notin store.ids

\* with cap 0 the run recorded the non-matching t6 and stopped at the
\* candidate t1, which stays out of the ledger
C18_Witness ==
    /\ Saved
    /\ MAX_RETWEETS_PER_RUN = 0
    /\ tweets = <<"t6", "t1">>
    /\ hist.loaded = {}
    /\ hist.capped = "t1"
    /\ store.ids = {"t6"}

\* C19: retweeted_count never exceeds max(MAX_RETWEETS_PER_RUN, 0) and is
\* the number of client.retweet calls that succeeded plus the number of
\* simulated retweets of the run: a failed call does not count.
C19_CounterWithinCap ==
    /\ retweeted_count <= Max(MAX_RETWEETS_PER_RUN, 0)
    /\ retweeted_count = Succeeded(hist) + Len(hist.simulated)
    /\ Len(hist.retweet_calls) = Succeeded(hist) + Cardinality(FailedIds(hist))

\* after a failed call the counter is still 0 and the loop goes on
C19_Witness ==
    /\ pc = "loop"
    /\ Live
    /\ MAX_RETWEETS_PER_RUN = 1
    /\ hist.retweet_calls = << <<"t1", FALSE>> >>
    /\ retweeted_count = 0
    /\ tweets = <<"t1", "t2">>
    /\ idx = 2

\* a run has been completed, every fetched tweet that passes the gates has
\* received exactly one client.retweet call, no other tweet has received
\* any, and the ledger in state.json is the whole timeline
Settled ==
    /\ prev.outcome = "saved"
    /\ \A id \in TweetIds :
           called[id] =
               IF id \in Range(tweets)
                    /\ Gate(Tweet(id), {}, Cutoff(now)) = "admit"
               THEN 1 ELSE 0
    /\ Durable(store) = Range(tweets)

\* C20: in steady operation with a cap of at least 1, after finitely many
\* runs every admissible tweet of the timeline has been retweeted exactly
\* once, and from then on no run calls client.retweet or changes the
\* ledger.
C20_EventuallySettled == <>[]Settled

\* with cap 1 and two admissible tweets, a run after both were retweeted
\* ended without a call
C20_Witness ==
    /\ Settled
    /\ MAX_RETWEETS_PER_RUN = 1
    /\ tweets = <<"t1", "t2">>
    /\ prev.capped = NoTweet
    /\ hist.retweet_calls = << >>
    /\ Saved

====
